---- MODULE Spec2Model ----
(***************************************************************************)
(* Model of pythainlp/corpus/core.py: the local corpus cache.              *)
(*                                                                         *)
(* State: the TinyDB metadata store (a list of documents), the payload     *)
(* files of the data directory, and the record of the last call made.      *)
(* The module is single-threaded and synchronous, so every public          *)
(* operation is one atomic action; the remote side (catalog server and     *)
(* payload server) is an input chosen per request.                         *)
(***************************************************************************)
EXTENDS Integers, Sequences, FiniteSets, TLC

(* Bound on the number of documents in the store (the code has none).      *)
MaxRecords == 2

(***************************************************************************)
(* Inputs.                                                                 *)
(***************************************************************************)

(* version=None of download()                                              *)
NoVersion == "None"

(* Corpus names callers pass: a listed name, a listed name with an         *)
(* upper-case letter, and a name the catalog does not list.                *)
Names == {"ttc", "Wiki", "zzz"}

VersionArgs == {NoVersion, "0.9", "1.0"}

(* str.lower() on the names above                                          *)
Lower(n) == IF n = "Wiki" THEN "wiki" ELSE n

(* The catalog document served at corpus_db_url(): name -> entry.          *)
(* "ttc" has two versions (one unchecked with md5 "-", one with a digest), *)
(* "Wiki" is a key that has no lower-cased twin.                           *)
Catalog ==
  "ttc" :> [latest_version |-> "1.0",
            versions |-> ("0.9" :> [filename |-> "ttc_old.txt", download_url |-> "u/ttc09", md5 |-> "-"]
                       @@ "1.0" :> [filename |-> "ttc.txt", download_url |-> "u/ttc10", md5 |-> "d1"])]
  @@
  "Wiki" :> [latest_version |-> "1.0",
             versions |-> ("1.0" :> [filename |-> "wiki.txt", download_url |-> "u/wiki10", md5 |-> "-"])]

(* url=None of download()                                                  *)
NoUrl == "None"

(* A catalog URL a caller passes to download(url=...)                      *)
MirrorUrl == "mirror/db.json"

Urls == {NoUrl, MirrorUrl}

(* The catalog document served at MirrorUrl: the same corpus, version 1.0  *)
(* listed with an empty md5.                                               *)
MirrorCatalog ==
  "ttc" :> [latest_version |-> "1.0",
            versions |-> ("0.9" :> [filename |-> "ttc_old.txt", download_url |-> "m/ttc09", md5 |-> "-"]
                       @@ "1.0" :> [filename |-> "ttc.txt", download_url |-> "m/ttc10", md5 |-> ""])]

(* corpus_db.json() of the catalog request sent to url                     *)
CatalogAt(url) == IF url = NoUrl THEN Catalog ELSE MirrorCatalog

FileNames == {"ttc_old.txt", "ttc.txt"}

(* File contents: "" is a file truncated by open(..., "wb") with nothing   *)
(* written; Absent is no file at that path.                                *)
Absent == "absent"

Bodies == {"A", "B"}

(* hashlib.md5(content).hexdigest()                                        *)
MD5(c) == CASE c = "A" -> "d1" [] c = "B" -> "d2" [] OTHER -> "d0"

(* pythainlp.tools.get_full_data_path: join the data directory and a name  *)
get_full_data_path(f) == <<"pythainlp-data", f>>

Paths == {get_full_data_path(f) : f \in FileNames}

NoPath == <<>>

(* What the remote side does to one download() call: the answer to the     *)
(* catalog request, the fate of the payload transfer, the payload body.    *)
(*   cat: "ok" | "transport" (requests.get raises) | "http" (non-2xx)      *)
(*   net: "ok" | "connect" (urlopen / requests.get raises)                 *)
(*        | "stream" (iter_content raises after the file was opened)       *)
(*        | "nolen" (no Content-Length header, tqdm present: KeyError)     *)
Envs ==
  {[cat |-> c, net |-> "ok", body |-> "A"] : c \in {"transport", "http"}}
  \cup {[cat |-> "ok", net |-> n, body |-> "A"] : n \in {"connect", "stream", "nolen"}}
  \cup {[cat |-> "ok", net |-> "ok", body |-> b] : b \in Bodies}

(***************************************************************************)
(* The metadata store: TinyDB keeps a list of documents in insertion       *)
(* order; a document is [name, version, file_name].                        *)
(***************************************************************************)

(* local_db.search(query.name == name)                                     *)
search_name(d, name) == SelectSeq(d, LAMBDA r : r.name = name)

(* Mutant: the version is compared with the wrong field of the document.   *)
search_name_version_wrong_field(d, name, version) ==
  SelectSeq(d, LAMBDA r : r.name = name /\ r.file_name = version)

(* local_db.search((query.name == name) & (query.version == version))      *)
search_name_version(d, name, version) ==
  SelectSeq(d, LAMBDA r : r.name = name /\ r.version = version)

(* local_db.search(query.name == name and query.version == version):       *)
(* a TinyDB query object is truthy, so Python's `and` yields its right     *)
(* operand and the search is by version alone.                             *)
search_and(d, name, version) == SelectSeq(d, LAMBDA r : r.version = version)

(* local_db.update({"version": version}, query.name == name)               *)
db_update(d, name, version) ==
  [i \in DOMAIN d |-> IF d[i].name = name THEN [d[i] EXCEPT !.version = version] ELSE d[i]]

(* local_db.insert({"name": ..., "version": ..., "file_name": ...})        *)
db_insert(d, name, version, file_name) ==
  Append(d, [name |-> name, version |-> version, file_name |-> file_name])

(* db.remove(query.name == name)                                           *)
db_remove(d, name) == SelectSeq(d, LAMBDA r : r.name # name)

(* The empty dict()                                                        *)
EmptyDict == <<>>

(* get_corpus_db_detail: the first document of that name, or dict()        *)
get_corpus_db_detail(d, name) ==
  LET res == search_name(d, name)
  IN IF res # <<>> THEN res[1] ELSE EmptyDict

(* os.path.exists(path)                                                    *)
exists(f, path) == path \in DOMAIN f /\ f[path] # Absent

(***************************************************************************)
(* The download flow.                                                      *)
(***************************************************************************)

(* Mutant: only a raised request counts as no catalog (`is None`), a       *)
(* non-success response is used as the catalog.                            *)
get_corpus_db_is_none(e) == e.cat # "transport"

(* get_corpus_db: the parsed catalog, or nothing when the request raised   *)
(* (caught, returns None) or the response is not ok (a falsy Response).    *)
get_corpus_db(e) == e.cat = "ok"

(* _download: [files, err].  urlopen / requests.get raise before the file  *)
(* is opened; a failure while streaming, or the missing Content-Length     *)
(* header, raises after open(dst, "wb") truncated the file.                *)
_download(f, dst, e) ==
  LET path == get_full_data_path(dst)
  IN CASE e.net = "connect" -> [files |-> f, err |-> "transport"]
       [] e.net = "stream" -> [files |-> [f EXCEPT ![path] = ""], err |-> "transport"]
       [] e.net = "nolen" -> [files |-> [f EXCEPT ![path] = ""], err |-> "keyerror"]
       [] OTHER -> [files |-> [f EXCEPT ![path] = e.body], err |-> "none"]

(* Mutant: only "-" switches the comparison off, an empty md5 does not.    *)
_check_hash_dash_only(f, dst, md5) ==
  IF md5 # "-"
  THEN md5 = MD5(f[get_full_data_path(dst)])
  ELSE TRUE

(* Mutant: the digests are never compared.                                 *)
_check_hash_unchecked(f, dst, md5) == TRUE

(* _check_hash: TRUE when it returns, FALSE when it raises                 *)
_check_hash(f, dst, md5) ==
  IF md5 # "" /\ md5 # "-"
  THEN md5 = MD5(f[get_full_data_path(dst)])
  ELSE TRUE

(* The outcome of one download() call.                                     *)
(*   ret    "True" | "False" | "raise"                                     *)
(*   err    the exception that escaped ("none" when the call returned)     *)
(*   fault  the transport failure the call met, "none" if it met none      *)
(*   msg    the status line printed last                                   *)
(*   trace  the steps taken, in order                                      *)
(*   ver    the resolved version ("" when it was not resolved)             *)
(*   open   store handles opened and not closed                            *)
Outcome(d, f, name, force, ret, err, fault, msg, trace, ver, open) ==
  [db |-> d, files |-> f, name |-> name, force |-> force, ret |-> ret, err |-> err,
   fault |-> fault, msg |-> msg, trace |-> trace, ver |-> ver, open |-> open]

(* Mutant: the force argument is ignored.                                  *)
should_download_unforced(force, found) == found = <<>>

(* if force or not found                                                   *)
should_download(force, found) == force \/ found = <<>>

(* download, lines 225-286, with corpus_db the catalog document served at  *)
(* url                                                                     *)
download_from(corpus_db, d, f, name, force, version, e) ==
  IF ~get_corpus_db(e)
  THEN Outcome(d, f, name, force, "False", "none",
               IF e.cat = "transport" THEN "catalog" ELSE "none",
               "cannot download catalog", <<"catalog">>, "", 0)
  ELSE IF name \notin DOMAIN corpus_db
  THEN Outcome(d, f, name, force, "False", "none", "none", "not found", <<"catalog">>, "", 0)
  ELSE IF Lower(name) \notin DOMAIN corpus_db
  THEN Outcome(d, f, name, force, "raise", "keyerror", "none", "", <<"catalog">>, "", 1)
  ELSE
    LET corpus == corpus_db[Lower(name)]
        ver == IF version = NoVersion THEN corpus.latest_version ELSE version
    IN IF ver \notin DOMAIN corpus.versions
       THEN Outcome(d, f, name, force, "raise", "keyerror", "none", "", <<"catalog">>, "", 1)
       ELSE
         LET corpus_versions == corpus.versions[ver]
             file_name == corpus_versions.filename
             found == search_name_version(d, name, ver)
         IN IF should_download(force, found)
            THEN
              LET dl == _download(f, file_name, e)
              IN IF dl.err # "none"
                 THEN Outcome(d, dl.files, name, force, "raise", dl.err,
                              IF dl.err = "transport" THEN "payload" ELSE "none",
                              "downloading", <<"catalog", "fetch">>, ver, 1)
                 ELSE IF ~_check_hash(dl.files, file_name, corpus_versions.md5)
                 THEN Outcome(d, dl.files, name, force, "raise", "integrity", "none",
                              "downloading", <<"catalog", "fetch", "verify">>, ver, 1)
                 ELSE IF found # <<>>
                 THEN Outcome(db_update(d, name, ver), dl.files, name, force, "True", "none", "none",
                              "downloading", <<"catalog", "fetch", "verify", "update">>, ver, 0)
                 ELSE Outcome(db_insert(d, name, ver, file_name), dl.files, name, force, "True", "none", "none",
                              "downloading", <<"catalog", "fetch", "verify", "insert">>, ver, 0)
            ELSE IF search_and(d, name, ver) # <<>>
                 THEN Outcome(d, f, name, force, "True", "none", "none",
                              "already up to date", <<"catalog">>, ver, 0)
                 ELSE Outcome(d, f, name, force, "True", "none", "none",
                              "new version available", <<"catalog">>, ver, 0)

(* download(name, force, url=None, version): the catalog is the one at     *)
(* corpus_db_url()                                                         *)
download(d, f, name, force, version, e) ==
  download_from(Catalog, d, f, name, force, version, e)

(* What the record of a call keeps of a download outcome, with the answer  *)
(* the catalog request got: "ok" | "transport" | "http".                   *)
Summary(o, e) ==
  [name |-> o.name, force |-> o.force, catalog |-> e.cat, ret |-> o.ret, err |-> o.err,
   fault |-> o.fault, msg |-> o.msg, trace |-> o.trace, ver |-> o.ver]

(* dict.get("file_name") of a document or of the empty dict                *)
has_file_name(detail) == DOMAIN detail # {} /\ detail.file_name # ""

(* The result of get_corpus_path: ret is "path" | "None" | "raise", dls    *)
(* the download() calls it made, open the store handles left open.         *)
PathResult(d, f, ret, path, err, dls, open) ==
  [db |-> d, files |-> f, ret |-> ret, path |-> path, err |-> err, dls |-> dls, open |-> open]

(* Mutant: the path is returned without checking that the file exists.    *)
path_unchecked(d, f, path, dls, open) ==
  PathResult(d, f, "path", path, "none", dls, open)

(* get_corpus_path, lines 138-141, after its second download (if any)      *)
path_if_exists(d, f, path, dls, open) ==
  IF exists(f, path)
  THEN PathResult(d, f, "path", path, "none", dls, open)
  ELSE PathResult(d, f, "None", NoPath, "none", dls, open)

(* get_corpus_path, line 137: o2 is the outcome of the second download     *)
after_second_download(o2, e2, path, dls, open) ==
  IF o2.ret = "raise"
  THEN PathResult(o2.db, o2.files, "raise", NoPath, o2.err, Append(dls, Summary(o2, e2)), open + o2.open)
  ELSE path_if_exists(o2.db, o2.files, path, Append(dls, Summary(o2, e2)), open + o2.open)

(* get_corpus_path, lines 132-141: detail is the record looked up last     *)
locate(d, f, name, detail, dls, open, e2) ==
  IF has_file_name(detail)
  THEN IF ~exists(f, get_full_data_path(detail.file_name))
       THEN after_second_download(download(d, f, name, FALSE, NoVersion, e2), e2,
                                  get_full_data_path(detail.file_name), dls, open)
       ELSE path_if_exists(d, f, get_full_data_path(detail.file_name), dls, open)
  ELSE PathResult(d, f, "None", NoPath, "none", dls, open)

(* get_corpus_path, lines 129-130: o1 is the outcome of the first download *)
after_first_download(o1, e1, name, e2) ==
  IF o1.ret = "raise"
  THEN PathResult(o1.db, o1.files, "raise", NoPath, o1.err, <<Summary(o1, e1)>>, o1.open)
  ELSE locate(o1.db, o1.files, name, get_corpus_db_detail(o1.db, name),
              <<Summary(o1, e1)>>, o1.open, e2)

(* get_corpus_path(name); e1, e2 are what the remote side does to its      *)
(* first and second download.                                              *)
get_corpus_path(d, f, name, e1, e2) ==
  IF ~has_file_name(get_corpus_db_detail(d, name))
  THEN after_first_download(download(d, f, name, FALSE, NoVersion, e1), e1, name, e2)
  ELSE locate(d, f, name, get_corpus_db_detail(d, name), <<>>, 0, e2)

(* remove, lines 320-323: g is the result of get_corpus_path.              *)
(* os.remove(None) raises TypeError; an exception leaves the handle opened *)
(* at the top of remove() open.                                            *)
remove_path(g, name) ==
  IF g.ret = "raise"
  THEN [db |-> g.db, files |-> g.files, ret |-> "raise", err |-> g.err,
        dls |-> g.dls, open |-> g.open + 1]
  ELSE IF g.ret = "None"
  THEN [db |-> g.db, files |-> g.files, ret |-> "raise", err |-> "typeerror",
        dls |-> g.dls, open |-> g.open + 1]
  ELSE [db |-> db_remove(g.db, name), files |-> [g.files EXCEPT ![g.path] = Absent],
        ret |-> "True", err |-> "none", dls |-> g.dls, open |-> g.open]

(* Mutant: the record is not looked up before the path is resolved.        *)
remove_unchecked(d, f, name, e1, e2) ==
  remove_path(get_corpus_path(d, f, name, e1, e2), name)

(* remove(name): [db, files, ret, err, dls, open], ret "True" | "False" |  *)
(* "raise"                                                                 *)
remove(d, f, name, e1, e2) ==
  IF search_name(d, name) # <<>>
  THEN remove_path(get_corpus_path(d, f, name, e1, e2), name)
  ELSE [db |-> d, files |-> f, ret |-> "False", err |-> "none", dls |-> <<>>, open |-> 0]

(***************************************************************************)
(* State.                                                                  *)
(*   db     the documents of the metadata store, in insertion order        *)
(*   files  the content of each payload path of the data directory         *)
(*   call   the last call: its arguments, its result, the download()       *)
(*          calls it made, and `after`, which says whether it repeats the  *)
(*          call before it                                                 *)
(***************************************************************************)
(* The remote side of a download() call that is never made: a call of     *)
(* get_corpus_path that makes fewer than two downloads draws a fixed Env   *)
(* for those it does not make.                                             *)
Idle == [cat |-> "ok", net |-> "ok", body |-> "A"]

VARIABLES db, files, call
vars == <<db, files, call>>

Call(op, name, force, version, ret, err, path, dls, open, after) ==
  [op |-> op, name |-> name, force |-> force, version |-> version, ret |-> ret, err |-> err,
   path |-> path, dls |-> dls, open |-> open, after |-> after]

(* A fresh data directory: empty store, no payload file, no call made.     *)
Init ==
  /\ db = <<>>
  /\ files = [p \in Paths |-> Absent]
  /\ call = Call("none", "", FALSE, NoVersion, "", "none", NoPath, <<>>, 0, "none")

(* Whether a step occurs in a trace                                        *)
Has(trace, step) == \E i \in DOMAIN trace : trace[i] = step

(* Whether a download(name, force=False, version) follows the same call    *)
(* that returned True, and whether that call fetched the payload.          *)
After(name, force, version) ==
  IF /\ call.op = "download" /\ call.name = name /\ call.version = version
     /\ ~call.force /\ ~force /\ call.ret = "True"
  THEN IF Has(call.dls[1].trace, "fetch")
       THEN "fetched" ELSE "not fetched"
  ELSE "none"

(* The state after a call with result r, recorded as c                    *)
Return(r, c) ==
  /\ Len(r.db) <= MaxRecords
  /\ db' = r.db
  /\ files' = r.files
  /\ call' = c

DownloadReturn(o, name, force, version, e) ==
  Return(o, Call("download", name, force, version, o.ret, o.err, NoPath,
                 <<Summary(o, e)>>, o.open, After(name, force, version)))

Download(name, force, version, e) ==
  DownloadReturn(download(db, files, name, force, version, e), name, force, version, e)

(* A call that made n download() calls drew Idle for those it did not      *)
(* make: the first when a record was there, else the second.               *)
Unused(n, had_record, e1, e2) ==
  /\ had_record \/ n = 0 => e1 = Idle
  /\ n = 0 => e2 = Idle
  /\ n = 1 /\ ~had_record => e2 = Idle

GetCorpusPathReturn(g, name, e1, e2) ==
  /\ Unused(Len(g.dls), has_file_name(get_corpus_db_detail(db, name)), e1, e2)
  /\ Return(g, Call("get_corpus_path", name, FALSE, NoVersion, g.ret, g.err, g.path,
                    g.dls, g.open, "none"))

GetCorpusPath(name, e1, e2) ==
  GetCorpusPathReturn(get_corpus_path(db, files, name, e1, e2), name, e1, e2)

GetCorpusDbDetailReturn(detail, name) ==
  /\ call' = Call("get_corpus_db_detail", name, FALSE,
                  IF DOMAIN detail # {} THEN detail.version ELSE NoVersion,
                  IF DOMAIN detail # {} THEN "record" ELSE "empty", "none",
                  IF DOMAIN detail # {} THEN get_full_data_path(detail.file_name) ELSE NoPath,
                  <<>>, 0, "none")
  /\ UNCHANGED <<db, files>>

GetCorpusDbDetail(name) == GetCorpusDbDetailReturn(get_corpus_db_detail(db, name), name)

RemoveReturn(r, name, e1, e2) ==
  /\ Unused(Len(r.dls), has_file_name(get_corpus_db_detail(db, name)), e1, e2)
  /\ Return(r, Call("remove", name, FALSE, NoVersion, r.ret, r.err, NoPath,
                    r.dls, r.open, "none"))

Remove(name, e1, e2) == RemoveReturn(remove(db, files, name, e1, e2), name, e1, e2)

(* A payload file is deleted from outside the module.                      *)
DeleteFile(p) ==
  /\ files[p] # Absent
  /\ files' = [files EXCEPT ![p] = Absent]
  /\ call' = Call("unlink", "", FALSE, NoVersion, "", "none", p, <<>>, 0, "none")
  /\ UNCHANGED db

Next ==
  \/ \E name \in Names, force \in BOOLEAN, version \in VersionArgs, e \in Envs :
       Download(name, force, version, e)
  \/ \E name \in Names, e1 \in Envs, e2 \in Envs : GetCorpusPath(name, e1, e2)
  \/ \E name \in Names : GetCorpusDbDetail(name)
  \/ \E name \in Names, e1 \in Envs, e2 \in Envs : Remove(name, e1, e2)
  \/ \E p \in Paths : DeleteFile(p)

Spec == Init /\ [][Next]_vars

(***************************************************************************)
(* download() with a caller-supplied catalog URL.                          *)
(***************************************************************************)

DownloadUrlReturn(o, name, force, url, version, e) ==
  Return(o, [url |-> url] @@ Call("download", name, force, version, o.ret, o.err, NoPath,
                                  <<Summary(o, e)>>, o.open, After(name, force, version)))

(* download(name, force, url, version)                                     *)
DownloadUrl(name, force, url, version, e) ==
  DownloadUrlReturn(download_from(CatalogAt(url), db, files, name, force, version, e),
                    name, force, url, version, e)

NextUrl ==
  \/ \E name \in Names, force \in BOOLEAN, url \in Urls, version \in VersionArgs, e \in Envs :
       DownloadUrl(name, force, url, version, e)
  \/ \E p \in Paths : DeleteFile(p)

SpecUrl == Init /\ [][NextUrl]_vars


(***************************************************************************)
(* Properties.                                                             *)
(***************************************************************************)

(* The download() call a record of a download holds                        *)
Dl(c) == c.dls[1]

(* The catalog's version entry a download resolved                         *)
Resolved(dl) == Catalog[Lower(dl.name)].versions[dl.ver]

(* C1: the metadata store holds at most one record per corpus name in      *)
(* every reachable state.                                                  *)
C1_OneRecordPerName == \A n \in Names : Len(search_name(db, n)) <= 1

(* C2: download(name) without force, when a record for name exists and no  *)
(* record of name has the requested version, only reports the version      *)
(* delta: no payload fetch, no file written, the store unchanged.          *)
C2_NoImplicitUpgrade ==
  [][(/\ call'.op = "download"
      /\ ~call'.force
      /\ Dl(call').ver # ""
      /\ search_name(db, call'.name) # <<>>
      /\ search_name_version(db, call'.name, Dl(call').ver) = <<>>)
     => (/\ Dl(call').msg = "new version available"
         /\ ~Has(Dl(call').trace, "fetch")
         /\ files' = files
         /\ db' = db)]_vars

(* C3: download(name) called twice in a row without force, same version,   *)
(* catalog reachable the second time: the second call reports "already up  *)
(* to date", returns True, fetches nothing, writes no file and leaves the  *)
(* store unchanged.                                                        *)
C3_SecondDownloadIsNoOp ==
  [][(/\ call'.op = "download"
      /\ call'.after # "none"
      /\ Dl(call').catalog = "ok")
     => (/\ Dl(call').msg = "already up to date"
         /\ call'.ret = "True"
         /\ ~Has(Dl(call').trace, "fetch")
         /\ files' = files
         /\ db' = db)]_vars

(* C3 witness: a download that fetched the payload, then the same call     *)
(* again, which reported "already up to date".                             *)
C3_Witness ==
  /\ call.op = "download"
  /\ call.after = "fetched"
  /\ Dl(call).catalog = "ok"
  /\ Dl(call).msg = "already up to date"

(* C4 as claimed: download(name, force=True) with the catalog reachable    *)
(* and listing name always performs the full sequence payload fetch,       *)
(* integrity verify, store update or insert.                               *)
C4_ForceAlwaysFullSequence ==
  (/\ call.op = "download"
   /\ call.force
   /\ Dl(call).catalog = "ok"
   /\ call.name \in DOMAIN Catalog)
  => \/ Dl(call).trace = <<"catalog", "fetch", "verify", "update">>
     \/ Dl(call).trace = <<"catalog", "fetch", "verify", "insert">>

(* C4 amended: download(name, force=True) with the catalog reachable and   *)
(* listing name, whatever the local state: raises before any fetch when    *)
(* the lower-cased name or the requested version is not in the catalog;    *)
(* otherwise it always starts the payload fetch, verifies only after the   *)
(* fetch completed, and updates or inserts the record only after the       *)
(* verify passed, in that order, and then returns True.                    *)
C4_ForceSequence ==
  (/\ call.op = "download"
   /\ call.force
   /\ Dl(call).catalog = "ok"
   /\ call.name \in DOMAIN Catalog)
  => IF Dl(call).ver = ""
     THEN /\ Dl(call).trace = <<"catalog">>
          /\ call.err = "keyerror"
          /\ \/ Lower(call.name) \notin DOMAIN Catalog
             \/ call.version \notin DOMAIN Catalog[Lower(call.name)].versions
     ELSE \/ /\ Dl(call).trace = <<"catalog", "fetch">>
             /\ call.err \in {"transport", "keyerror"}
          \/ /\ Dl(call).trace = <<"catalog", "fetch", "verify">>
             /\ call.err = "integrity"
          \/ /\ Dl(call).trace \in {<<"catalog", "fetch", "verify", "update">>,
                                    <<"catalog", "fetch", "verify", "insert">>}
             /\ call.ret = "True"
             /\ search_name_version(db, call.name, Dl(call).ver) # <<>>

(* C4 witness: a forced download over a record of the same version ran the *)
(* whole sequence and updated the record.                                  *)
C4_Witness ==
  /\ call.op = "download"
  /\ call.force
  /\ Dl(call).trace = <<"catalog", "fetch", "verify", "update">>

(* C5: a download whose fetched file does not match a non-sentinel         *)
(* expected digest does not return True (it raises) and leaves the store   *)
(* as it was.                                                              *)
C5_MismatchFailsAndKeepsStore ==
  [][(/\ call'.op = "download"
      /\ Dl(call').ver # ""
      /\ Has(Dl(call').trace, "fetch")
      /\ Dl(call').err \notin {"transport", "keyerror"}
      /\ Resolved(Dl(call')).md5 \notin {"", "-"}
      /\ MD5(files'[get_full_data_path(Resolved(Dl(call')).filename)]) # Resolved(Dl(call')).md5)
     => (/\ call'.ret = "raise"
         /\ call'.err = "integrity"
         /\ db' = db)]_vars

(* C5 witness: a forced download over an existing record fetched a body    *)
(* whose digest is not the expected one, and raised.                       *)
C5_Witness ==
  /\ call.op = "download"
  /\ call.err = "integrity"
  /\ search_name_version(db, call.name, Dl(call).ver) # <<>>
  /\ MD5(files[get_full_data_path(Resolved(Dl(call)).filename)]) # Resolved(Dl(call)).md5

(* C6: with the catalog unreachable (the request raises, or the response   *)
(* is not a success) download returns False for every name, raises         *)
(* nothing, and changes neither the store nor the files.                   *)
C6_CatalogUnreachable ==
  [][(/\ call'.op = "download"
      /\ Dl(call').catalog # "ok")
     => (/\ call'.ret = "False"
         /\ call'.err = "none"
         /\ files' = files
         /\ db' = db)]_vars

(* C6 witness: the catalog answered with a non-success response to a       *)
(* forced download of a corpus that has a record, and the call returned    *)
(* False.                                                                  *)
C6_Witness ==
  /\ call.op = "download"
  /\ call.force
  /\ Dl(call).catalog = "http"
  /\ call.ret = "False"
  /\ search_name(db, call.name) # <<>>

(* C7: no transport failure inside a download call (catalog request or     *)
(* payload fetch) escapes as an exception: the call returns False.         *)
C7_TransportFailureReturnsFalse ==
  (call.op = "download" /\ Dl(call).fault # "none")
  => (call.ret = "False" /\ call.err = "none")

(* C8: download returns True whenever name is a key of the catalog, also   *)
(* for names with upper-case characters and for any version argument.      *)
C8_TrueWheneverListed ==
  (/\ call.op = "download"
   /\ Dl(call).catalog = "ok"
   /\ call.name \in DOMAIN Catalog)
  => call.ret = "True"

(* C9: after a download(name) that returned True and fetched the payload,  *)
(* the next get_corpus_path(name) returns a path whose file exists (even   *)
(* granted a reachable catalog and an undisturbed payload transfer).       *)
C9_PathAfterDownload ==
  [][(/\ call.op = "download"
      /\ call.ret = "True"
      /\ Has(Dl(call).trace, "fetch")
      /\ call'.op = "get_corpus_path"
      /\ call'.name = call.name
      /\ \A i \in DOMAIN call'.dls :
           call'.dls[i].catalog = "ok" /\ call'.dls[i].err = "none")
     => (/\ call'.ret = "path"
         /\ exists(files', call'.path))]_vars

(* C10: when a record for name exists and its file is missing, the next    *)
(* get_corpus_path(name), with the catalog reachable and the payload       *)
(* transfer undisturbed, fetches the payload again, so that the file       *)
(* exists and its path is returned.                                        *)
C10_MissingFileIsRedownloaded ==
  [][(/\ has_file_name(get_corpus_db_detail(db, call'.name))
      /\ ~exists(files, get_full_data_path(get_corpus_db_detail(db, call'.name).file_name))
      /\ call'.op = "get_corpus_path"
      /\ \A i \in DOMAIN call'.dls :
           call'.dls[i].catalog = "ok" /\ call'.dls[i].err = "none")
     => (/\ \E i \in DOMAIN call'.dls : Has(call'.dls[i].trace, "fetch")
         /\ call'.ret = "path"
         /\ exists(files', call'.path))]_vars

(* C11: remove(name) right after a download of name that returned True and *)
(* fetched the payload (granted a reachable catalog and an undisturbed     *)
(* transfer in the downloads remove itself makes) returns True, the        *)
(* downloaded file no longer exists, and get_corpus_db_detail(name) is     *)
(* then empty.                                                             *)
C11_RemoveAfterDownload ==
  [][(/\ call.op = "download"
      /\ call.ret = "True"
      /\ Has(Dl(call).trace, "fetch")
      /\ call'.op = "remove"
      /\ call'.name = call.name
      /\ \A i \in DOMAIN call'.dls :
           call'.dls[i].catalog = "ok" /\ call'.dls[i].err = "none")
     => (/\ call'.ret = "True"
         /\ ~exists(files', get_full_data_path(Resolved(Dl(call)).filename))
         /\ DOMAIN get_corpus_db_detail(db', call'.name) = {})]_vars

(* C12: remove(name) for a name with no record returns False and leaves    *)
(* the store and the files unchanged.                                      *)
C12_RemoveUnknown ==
  [][(/\ call'.op = "remove"
      /\ \A i \in DOMAIN db : db[i].name # call'.name)
     => (/\ call'.ret = "False"
         /\ call'.err = "none"
         /\ files' = files
         /\ db' = db)]_vars

(* C12 witness: remove of a name without a record returned False while the *)
(* store held a record of another name and its file.                       *)
C12_Witness ==
  /\ call.op = "remove"
  /\ call.ret = "False"
  /\ db # <<>>
  /\ \A i \in DOMAIN db : db[i].name # call.name /\ exists(files, get_full_data_path(db[i].file_name))

(* C13: remove(name) for a name whose record exists and whose file is      *)
(* absent does not raise: it returns True and no record of name is left.   *)
C13_RemoveWithMissingFile ==
  [][(/\ call'.op = "remove"
      /\ has_file_name(get_corpus_db_detail(db, call'.name))
      /\ ~exists(files, get_full_data_path(get_corpus_db_detail(db, call'.name).file_name)))
     => (/\ call'.ret = "True"
         /\ search_name(db', call'.name) = <<>>)]_vars

(* C14: no call leaves a store handle open when it exits, on any exit      *)
(* path.                                                                   *)
C14_NoHandleLeftOpen == call.open = 0

(* C15: a download performed for name at version v updates the record of   *)
(* name in place when one exists, and inserts only when none exists, so    *)
(* that get_corpus_db_detail(name) then reports version v.                 *)
C15_UpdateInPlace ==
  [][(/\ call'.op = "download"
      /\ call'.ret = "True"
      /\ Has(Dl(call').trace, "fetch"))
     => (/\ Has(Dl(call').trace, "insert") => search_name(db, call'.name) = <<>>
         /\ get_corpus_db_detail(db', call'.name).version = Dl(call').ver)]_vars

C18_RecordsMatchCatalog ==
  \A i \in DOMAIN db :
    /\ Lower(db[i].name) \in DOMAIN Catalog
    /\ db[i].version \in DOMAIN Catalog[Lower(db[i].name)].versions
    /\ db[i].file_name = Catalog[Lower(db[i].name)].versions[db[i].version].filename

(* C19: whenever a record exists and its file exists, the file's content   *)
(* passes the integrity check of a catalog version of that name with that  *)
(* filename.                                                               *)
C19_RecordedFilesVerified ==
  \A i \in DOMAIN db :
    exists(files, get_full_data_path(db[i].file_name))
    => \E v \in DOMAIN Catalog[Lower(db[i].name)].versions :
         /\ Catalog[Lower(db[i].name)].versions[v].filename = db[i].file_name
         /\ _check_hash(files, db[i].file_name, Catalog[Lower(db[i].name)].versions[v].md5)

(* C17: a download whose catalog md5 is "-" or empty, once the payload is  *)
(* fetched, passes the integrity check whatever the content: the record is *)
(* registered and True returned.                                           *)
C17_SentinelSkipsCheck ==
  [][(/\ call'.op = "download"
      /\ Dl(call').catalog = "ok"
      /\ Dl(call').ver # ""
      /\ Has(Dl(call').trace, "fetch")
      /\ Dl(call').err \notin {"transport", "keyerror"}
      /\ CatalogAt(call'.url)[Lower(call'.name)].versions[Dl(call').ver].md5 \in {"", "-"})
     => (/\ call'.ret = "True"
         /\ call'.err = "none"
         /\ Has(Dl(call').trace, "verify")
         /\ search_name_version(db', call'.name, Dl(call').ver) # <<>>)]_vars

(* C17 witness: a download under an empty md5 fetched a body whose digest  *)
(* is no listed digest, registered the record and returned True.           *)
C17_Witness ==
  /\ call.op = "download"
  /\ call.url = MirrorUrl
  /\ call.ret = "True"
  /\ Dl(call).ver = "1.0"
  /\ Has(Dl(call).trace, "insert")
  /\ files[get_full_data_path("ttc.txt")] = "B"

====
